---- MODULE Spec2Model ----
(***************************************************************************)
(* Model of the personal-knowledge-base search engine                      *)
(* (internal/search/search.go): Engine.Search fans a query out to one      *)
(* goroutine per connector, waits on a WaitGroup, closes the buffered      *)
(* fan-in channel, drains it and applies the partial/total failure policy. *)
(* SearchWithSources (declared by its tests and callers only) selects the  *)
(* connectors named by a source filter and runs the same fan-out on them.  *)
(***************************************************************************)
EXTENDS Integers, Sequences, FiniteSets, TLC

\* ---------------------------------------------------------------- bounds
MaxConnectors == 2
MaxResults == 2
MaxSources == 1
MaxClientSources == 2

\* ---------------------------------------------------------------- domains
\* Connector names (Name()) and the names a caller may put in a filter.
Names == {"gdrive", "gmail"}
SourceNames == Names \cup {"nonexistent"}
\* Underlying errors a connector's Search may return.
Errors == {"refused", "timeout"}
NoErr == "nil"

\* connectors.Result as built by connector i: its j-th hit.
Result(i, j) == [source |-> i, title |-> j]

\* What one call of connector i's Search may return: n hits and no error,
\* or an error, alone or together with a stray hit.
Outcomes(i) ==
    {[res |-> [j \in 1..n |-> Result(i, j)], err |-> NoErr] : n \in 0..MaxResults}
    \cup {[res |-> <<>>, err |-> e] : e \in Errors}
    \cup {[res |-> <<Result(i, 1)>>, err |-> e] : e \in Errors}

NoOutcome == [res |-> <<>>, err |-> NoErr]

\* A sources argument: a nil slice, or a (possibly empty) list of names.
SeqsUpTo(S, n) == UNION {[1..m -> S] : m \in 0..n}
NilSources == [isNil |-> TRUE, list |-> <<>>]
SourcesArgs ==
    {NilSources} \cup {[isNil |-> FALSE, list |-> l] : l \in SeqsUpTo(SourceNames, MaxSources)}

\* Sources lists that name one connector twice.
DupSourcesArgs == {[isNil |-> FALSE, list |-> <<n, n>>] : n \in Names}

\* ---------------------------------------------------------------- state
VARIABLES
    connectors,  \* Engine.connectors: the Name() of each connector, in order
    pc,          \* where the calling goroutine is in Search
    call,        \* the operation invoked and its sources argument
    active,      \* indices (into connectors) of the connectors to query
    next,        \* loop position of the dispatch loop
    wg,          \* sync.WaitGroup counter
    gor,         \* the spawned goroutines, one per position of active
    ch,          \* buffered fan-in channel: queued result structs
    closed,      \* whether ch has been closed
    all,         \* var all []connectors.Result
    errs,        \* var errs []error
    ret,         \* the value returned to the caller
    outcome,     \* history: what each connector's Search returned
    calls,       \* history: how often each connector's Search was invoked
    ctx,         \* the caller's context.Context: whether and by whom it is cancelled
    ctxSeen,     \* history: the context each connector's Search was given
    parked,      \* the locals of the other of two concurrent callers
    cur,         \* which of the two callers the locals above belong to
    behaviour,   \* what a scenario fixes: the connectors' answers, the set-up, the client's arguments
    req,         \* the HTTP request the /search handler is serving
    resp,        \* the HTTP response the handler wrote
    loop,        \* serveLoop: its position, channels, signal registration and result
    server,      \* server.Server: its listener and what its callers observed
    tui,         \* tui.Model, the commands it issued and the messages on their way
    auth         \* auth.Flow.Run: its position, channels, callback server and result

\* The locals of one call of Search, with its history.
frame == <<pc, call, active, next, wg, gor, ch, closed, all, errs, ret, outcome, calls, ctxSeen>>
\* What the engine's own steps never touch.
serving == <<loop, server>>
ui == <<tui, auth>>
env == <<parked, cur, behaviour, req, resp, serving, ui>>
vars == <<connectors, frame, ctx, env>>

\* context.Background(), and no context yet.
Background == [done |-> FALSE, by |-> "none"]
NoCtx == [done |-> FALSE, by |-> "unset"]
NoFrame == <<>>
\* A URL query parameter: absent, or present with a value.
Absent(empty) == [present |-> FALSE, value |-> empty]
Present(v) == [present |-> TRUE, value |-> v]
\* url.Values.Get: the value, or the empty string for an absent parameter.
Get(param, empty) == IF param.present THEN param.value ELSE empty
NoReq == [seen |-> FALSE, q |-> Absent(""), sources |-> Absent(<<>>)]
NoResp == [status |-> 0, body |-> [kind |-> "none", error |-> [text |-> "", detail |-> <<>>], items |-> <<>>]]

\* Errors of the HTTP server, and no error.
ErrServerClosed == "http: Server closed"
ErrMustListen == "must call Listen before Serve"
ErrAccept == "accept error"
ErrShutdown == "context deadline exceeded"
\* serveLoop before it is called.
NoLoop ==
    [pc |-> "idle", gpc |-> "none", gerr |-> NoErr, errCh |-> <<>>, sigCh |-> <<>>,
     registered |-> FALSE, stops |-> 0, shutdowns |-> 0, via |-> "none",
     ret |-> [wraps |-> "", err |-> NoErr], out |-> <<>>]
\* server.New(addr): no listener yet. conns counts the connections that are
\* not idle and served those that were, closer is the position of a caller
\* of Shutdown other than serveLoop, closerCtx the context it passed,
\* closerBusy whether Shutdown found a connection active, closerErr its result.
NewServer ==
    [listener |-> "nil", listens |-> 0, bound |-> 0, accepting |-> FALSE, shut |-> FALSE,
     shutErr |-> NoErr, addrSeen |-> "unasked", conns |-> 0, served |-> 0, closer |-> "none",
     closerCtx |-> "none", closerBusy |-> FALSE, closerErr |-> NoErr]

\* tui.NewModel(searchFn): the input state, the text input empty and focused.
\* issued counts the search commands returned so far and pending holds those
\* still running; waiting is the one the loading state waits for, escaped
\* those that were running when Escape was pressed, cancelled those whose
\* context has been cancelled; last is the message handled last.
NewModel ==
    [state |-> "input", value |-> "", focused |-> TRUE, results |-> <<>>, cursor |-> 0,
     err |-> NoErr, quit |-> FALSE, issued |-> 0, waiting |-> 0, pending |-> {},
     escaped |-> {}, cancelled |-> {}, last |-> [msg |-> "none", id |-> 0, err |-> NoErr]]
\* Flow.Run before it is called.
\* handlers are the callback handlers that have not sent yet, codes and
\* nocodes count the callbacks received with and without a code.
NoFlow ==
    [pc |-> "idle", codeCh |-> <<>>, errCh |-> <<>>, listening |-> FALSE, started |-> FALSE,
     shutdowns |-> 0, opened |-> FALSE, handlers |-> <<>>, codes |-> 0, nocodes |-> 0,
     code |-> "", via |-> "none", ret |-> [token |-> "", wraps |-> "", err |-> NoErr]]

NoCall == [op |-> "none", sources |-> NilSources]
NoRet == [results |-> <<>>, isNil |-> TRUE, failed |-> FALSE, errs |-> <<>>]
NoGor == [pc |-> "none", res |-> <<>>, err |-> NoErr]

\* New(cs...): the engine stores the given connectors.
New(cs) == cs

Init ==
    /\ connectors \in {New(cs) : cs \in SeqsUpTo(Names, MaxConnectors)}
    /\ pc = "idle"
    /\ call = NoCall
    /\ active = <<>>
    /\ next = 1
    /\ wg = 0
    /\ gor = <<>>
    /\ ch = <<>>
    /\ closed = FALSE
    /\ all = <<>>
    /\ errs = <<>>
    /\ ret = NoRet
    /\ outcome = [i \in 1..Len(connectors) |-> NoOutcome]
    /\ calls = [i \in 1..Len(connectors) |-> 0]
    /\ ctx = Background
    /\ ctxSeen = [i \in 1..Len(connectors) |-> NoCtx]
    /\ parked = NoFrame
    /\ cur = 1
    /\ behaviour = <<>>
    /\ req = NoReq
    /\ resp = NoResp
    /\ loop = NoLoop
    /\ server = NewServer
    /\ tui = NewModel
    /\ auth = NoFlow

\* ---------------------------------------------------------------- helpers
\* Variant: an unbuffered channel, make(chan result).
ChanCapUnbuffered(n) == 0

\* make(chan result, n)
ChanCap(n) == n

\* Variant: the loop stops one connector short.
AllConnectorsOffByOne(cs) == [k \in 1..(Len(cs) - 1) |-> k]

\* All connectors of the engine, in order.
AllConnectors(cs) == [k \in 1..Len(cs) |-> k]

RECURSIVE SelectIdx(_, _, _)
SelectIdx(cs, wanted, i) ==
    IF i > Len(cs) THEN <<>>
    ELSE IF cs[i] \in wanted
         THEN <<i>> \o SelectIdx(cs, wanted, i + 1)
         ELSE SelectIdx(cs, wanted, i + 1)

\* Variant: only a nil filter means "all"; an empty list selects nothing.
filterConnectorsNilOnly(cs, sources) ==
    IF sources.isNil
    THEN AllConnectors(cs)
    ELSE SelectIdx(cs, {sources.list[k] : k \in 1..Len(sources.list)}, 1)

\* The connectors a sources filter selects: all of them for a nil or empty
\* filter, otherwise those whose Name() equals one of the listed names.
filterConnectors(cs, sources) ==
    IF sources.isNil \/ Len(sources.list) = 0
    THEN AllConnectors(cs)
    ELSE SelectIdx(cs, {sources.list[k] : k \in 1..Len(sources.list)}, 1)

\* fmt.Errorf("%s: %w", r.name, r.err)
WrapErr(name, err) == [name |-> name, cause |-> err]

\* The first statements of the fan-out: the channel, the WaitGroup, the loop.
StartFanOut(sel) ==
    /\ active' = sel
    /\ next' = 1
    /\ wg' = 0
    /\ gor' = [k \in 1..Len(sel) |-> NoGor]
    /\ ch' = <<>>
    /\ closed' = FALSE
    /\ all' = <<>>
    /\ errs' = <<>>
    /\ pc' = IF Len(sel) = 0 THEN "wait" ELSE "dispatch"
    /\ UNCHANGED ret

ReturnNow(r) ==
    /\ ret' = r
    /\ pc' = "returned"
    /\ UNCHANGED <<active, next, wg, gor, ch, closed, all, errs>>

\* ---------------------------------------------------------------- actions
\* Engine.Search(ctx, query): entry, the zero-connector return, the set-up.
Search ==
    /\ pc = "idle"
    /\ call' = [op |-> "Search", sources |-> NilSources]
    /\ IF Len(connectors) = 0
       THEN ReturnNow([results |-> <<>>, isNil |-> TRUE, failed |-> FALSE, errs |-> <<>>])
       ELSE StartFanOut(AllConnectors(connectors))
    /\ UNCHANGED <<connectors, env, ctx, ctxSeen, outcome, calls>>

\* Variant: no early return for an empty selection.
SearchWithSourcesNoGuard(sources) ==
    /\ pc = "idle"
    /\ call' = [op |-> "SearchWithSources", sources |-> sources]
    /\ StartFanOut(filterConnectors(connectors, sources))
    /\ UNCHANGED <<connectors, env, ctx, ctxSeen, outcome, calls>>

\* Engine.SearchWithSources(ctx, query, sources): select, then fan out; an
\* empty selection is an empty, present result collection and no error.
SearchWithSources(sources) ==
    /\ pc = "idle"
    /\ call' = [op |-> "SearchWithSources", sources |-> sources]
    /\ LET sel == filterConnectors(connectors, sources)
       IN IF Len(sel) = 0
          THEN ReturnNow([results |-> <<>>, isNil |-> FALSE, failed |-> FALSE, errs |-> <<>>])
          ELSE StartFanOut(sel)
    /\ UNCHANGED <<connectors, env, ctx, ctxSeen, outcome, calls>>

\* Variant: a sequential loop, each connector started after the previous
\* one has finished.
DispatchSequential ==
    /\ pc = "dispatch"
    /\ next <= Len(active)
    /\ IF next = 1 THEN TRUE ELSE gor[next - 1].pc = "exit"
    /\ wg' = wg + 1
    /\ gor' = [gor EXCEPT ![next].pc = "search"]
    /\ next' = next + 1
    /\ pc' = IF next + 1 > Len(active) THEN "wait" ELSE "dispatch"
    /\ UNCHANGED <<connectors, env, ctx, ctxSeen, call, active, ch, closed, all, errs, ret, outcome, calls>>

\* One iteration of the dispatch loop: wg.Add(1); go func(c) {...}(c).
\* The loop ends after the last connector and the caller reaches wg.Wait().
Dispatch ==
    /\ pc = "dispatch"
    /\ next <= Len(active)
    /\ wg' = wg + 1
    /\ gor' = [gor EXCEPT ![next].pc = "search"]
    /\ next' = next + 1
    /\ pc' = IF next + 1 > Len(active) THEN "wait" ELSE "dispatch"
    /\ UNCHANGED <<connectors, env, ctx, ctxSeen, call, active, ch, closed, all, errs, ret, outcome, calls>>

\* Variant: goroutine k queries the k-th connector of the engine instead of
\* the k-th selected one.
ConnectorSearchByPosition(k, o) ==
    /\ k \in 1..Len(gor)
    /\ pc # "panic"
    /\ gor[k].pc = "search"
    /\ gor' = [gor EXCEPT ![k] = [pc |-> "send", res |-> o.res, err |-> o.err]]
    /\ outcome' = [outcome EXCEPT ![k] = o]
    /\ calls' = [calls EXCEPT ![k] = @ + 1]
    /\ ctxSeen' = [ctxSeen EXCEPT ![k] = ctx]
    /\ UNCHANGED <<connectors, env, ctx, pc, call, active, next, wg, ch, closed, all, errs, ret>>

\* Variant: a failed connector call is retried once.
ConnectorSearchRetry(k, o) ==
    /\ k \in 1..Len(gor)
    /\ pc # "panic"
    /\ gor[k].pc = "search"
    /\ gor' = IF o.err # NoErr /\ calls[active[k]] = 0
              THEN gor
              ELSE [gor EXCEPT ![k] = [pc |-> "send", res |-> o.res, err |-> o.err]]
    /\ outcome' = [outcome EXCEPT ![active[k]] = o]
    /\ calls' = [calls EXCEPT ![active[k]] = @ + 1]
    /\ ctxSeen' = [ctxSeen EXCEPT ![active[k]] = ctx]
    /\ UNCHANGED <<connectors, env, ctx, pc, call, active, next, wg, ch, closed, all, errs, ret>>

\* Variant: the engine cancels the context once a connector has failed.
ConnectorSearchCancelsOnError(k, o) ==
    /\ k \in 1..Len(gor)
    /\ pc # "panic"
    /\ gor[k].pc = "search"
    /\ gor' = [gor EXCEPT ![k] = [pc |-> "send", res |-> o.res, err |-> o.err]]
    /\ outcome' = [outcome EXCEPT ![active[k]] = o]
    /\ calls' = [calls EXCEPT ![active[k]] = @ + 1]
    /\ ctxSeen' = [ctxSeen EXCEPT ![active[k]] = ctx]
    /\ ctx' = IF o.err # NoErr /\ ~ctx.done THEN [done |-> TRUE, by |-> "engine"] ELSE ctx
    /\ UNCHANGED <<connectors, env, pc, call, active, next, wg, ch, closed, all, errs, ret>>

\* Goroutine k: res, err := c.Search(ctx, query). The connector is a black
\* box: its call returns any outcome, or never (the action is not taken).
ConnectorSearch(k, o) ==
    /\ k \in 1..Len(gor)
    /\ pc # "panic"
    /\ gor[k].pc = "search"
    /\ gor' = [gor EXCEPT ![k] = [pc |-> "send", res |-> o.res, err |-> o.err]]
    /\ outcome' = [outcome EXCEPT ![active[k]] = o]
    /\ calls' = [calls EXCEPT ![active[k]] = @ + 1]
    /\ ctxSeen' = [ctxSeen EXCEPT ![active[k]] = ctx]
    /\ UNCHANGED <<connectors, env, ctx, pc, call, active, next, wg, ch, closed, all, errs, ret>>

\* Variant: the goroutine closes over the loop variable, so every outcome is
\* tagged with the name of the last connector of the loop.
SendLoopVarName(k) ==
    /\ k \in 1..Len(gor)
    /\ pc # "panic"
    /\ gor[k].pc = "send"
    /\ ~closed
    /\ Len(ch) < ChanCap(Len(active))
    /\ ch' = Append(ch, [results |-> gor[k].res, err |-> gor[k].err,
                         name |-> connectors[active[Len(active)]]])
    /\ gor' = [gor EXCEPT ![k].pc = "done"]
    /\ UNCHANGED <<connectors, env, ctx, ctxSeen, pc, call, active, next, wg, closed, all, errs, ret, outcome, calls>>

\* Variant: an unsynchronised fan-in structure, the last writer wins.
SendOverwrite(k) ==
    /\ k \in 1..Len(gor)
    /\ pc # "panic"
    /\ gor[k].pc = "send"
    /\ ~closed
    /\ ch' = <<[results |-> gor[k].res, err |-> gor[k].err, name |-> connectors[active[k]]]>>
    /\ gor' = [gor EXCEPT ![k].pc = "done"]
    /\ UNCHANGED <<connectors, env, ctx, ctxSeen, pc, call, active, next, wg, closed, all, errs, ret, outcome, calls>>

\* Goroutine k: ch <- result{results: res, err: err, name: c.Name()}.
\* The send blocks while the buffer is full; on a closed channel it panics.
Send(k) ==
    /\ k \in 1..Len(gor)
    /\ pc # "panic"
    /\ gor[k].pc = "send"
    /\ closed \/ Len(ch) < ChanCap(Len(active))
    /\ IF closed
       THEN /\ pc' = "panic"
            /\ UNCHANGED <<ch, gor>>
       ELSE /\ ch' = Append(ch, [results |-> gor[k].res, err |-> gor[k].err,
                                 name |-> connectors[active[k]]])
            /\ gor' = [gor EXCEPT ![k].pc = "done"]
            /\ pc' = pc
    /\ UNCHANGED <<connectors, env, ctx, ctxSeen, call, active, next, wg, closed, all, errs, ret, outcome, calls>>

\* Goroutine k: the deferred wg.Done().
Done(k) ==
    /\ k \in 1..Len(gor)
    /\ pc # "panic"
    /\ gor[k].pc = "done"
    /\ wg' = wg - 1
    /\ gor' = [gor EXCEPT ![k].pc = "exit"]
    /\ UNCHANGED <<connectors, env, ctx, ctxSeen, pc, call, active, next, ch, closed, all, errs, ret, outcome, calls>>

\* Variant: the caller does not wait for the goroutines.
WaitNoBlock ==
    /\ pc = "wait"
    /\ closed' = TRUE
    /\ pc' = "drain"
    /\ UNCHANGED <<connectors, env, ctx, ctxSeen, call, active, next, wg, gor, ch, all, errs, ret, outcome, calls>>

\* wg.Wait() returns once the counter is zero; then close(ch).
Wait ==
    /\ pc = "wait"
    /\ wg = 0
    /\ closed' = TRUE
    /\ pc' = "drain"
    /\ UNCHANGED <<connectors, env, ctx, ctxSeen, call, active, next, wg, gor, ch, all, errs, ret, outcome, calls>>

\* Variant: a successful outcome replaces what was collected so far.
DrainOverwrite ==
    /\ pc = "drain"
    /\ Len(ch) > 0
    /\ LET r == Head(ch)
       IN IF r.err # NoErr
          THEN /\ errs' = Append(errs, WrapErr(r.name, r.err))
               /\ all' = all
          ELSE /\ all' = r.results
               /\ errs' = errs
    /\ ch' = Tail(ch)
    /\ UNCHANGED <<connectors, env, ctx, ctxSeen, pc, call, active, next, wg, gor, closed, ret, outcome, calls>>

\* Variant: the loop breaks at the first failed outcome instead of
\* continuing with the next one.
DrainStopsAtError ==
    /\ pc = "drain"
    /\ Len(ch) > 0
    /\ LET r == Head(ch)
       IN IF r.err # NoErr
          THEN /\ errs' = Append(errs, WrapErr(r.name, r.err))
               /\ all' = all
               /\ ch' = <<>>
          ELSE /\ all' = all \o r.results
               /\ errs' = errs
               /\ ch' = Tail(ch)
    /\ UNCHANGED <<connectors, env, ctx, ctxSeen, pc, call, active, next, wg, gor, closed, ret, outcome, calls>>

RECURSIVE Interleave(_, _)
Interleave(a, b) ==
    IF Len(a) = 0 THEN b
    ELSE IF Len(b) = 0 THEN a
    ELSE <<Head(a), Head(b)>> \o Interleave(Tail(a), Tail(b))

\* Variant: the hits of the connectors are merged round-robin.
DrainInterleaved ==
    /\ pc = "drain"
    /\ Len(ch) > 0
    /\ LET r == Head(ch)
       IN IF r.err # NoErr
          THEN /\ errs' = Append(errs, WrapErr(r.name, r.err))
               /\ all' = all
          ELSE /\ all' = Interleave(all, r.results)
               /\ errs' = errs
    /\ ch' = Tail(ch)
    /\ UNCHANGED <<connectors, env, ctx, ctxSeen, pc, call, active, next, wg, gor, closed, ret, outcome, calls>>

\* Variant: the hits that came with an error are kept.
DrainKeepsPartial ==
    /\ pc = "drain"
    /\ Len(ch) > 0
    /\ LET r == Head(ch)
       IN IF r.err # NoErr
          THEN /\ errs' = Append(errs, WrapErr(r.name, r.err))
               /\ all' = all \o r.results
          ELSE /\ all' = all \o r.results
               /\ errs' = errs
    /\ ch' = Tail(ch)
    /\ UNCHANGED <<connectors, env, ctx, ctxSeen, pc, call, active, next, wg, gor, closed, ret, outcome, calls>>

\* One iteration of `for r := range ch`.
Drain ==
    /\ pc = "drain"
    /\ Len(ch) > 0
    /\ LET r == Head(ch)
       IN IF r.err # NoErr
          THEN /\ errs' = Append(errs, WrapErr(r.name, r.err))
               /\ all' = all
          ELSE /\ all' = all \o r.results
               /\ errs' = errs
    /\ ch' = Tail(ch)
    /\ UNCHANGED <<connectors, env, ctx, ctxSeen, pc, call, active, next, wg, gor, closed, ret, outcome, calls>>

\* Variant: any failure fails the whole call.
AggregateAnyFailure(collected, failures, dispatched) ==
    IF Len(failures) > 0
    THEN [results |-> <<>>, isNil |-> TRUE, failed |-> TRUE, errs |-> failures]
    ELSE [results |-> collected, isNil |-> Len(collected) = 0, failed |-> FALSE, errs |-> <<>>]

\* The value Search returns once the channel is drained.
Aggregate(collected, failures, dispatched) ==
    IF Len(failures) = dispatched
    THEN [results |-> <<>>, isNil |-> TRUE, failed |-> TRUE, errs |-> failures]
    ELSE [results |-> collected, isNil |-> Len(collected) = 0, failed |-> FALSE, errs |-> <<>>]

\* Variant: the failures are counted against all connectors of the engine,
\* not against the dispatched ones.
ReturnCountsAllConnectors ==
    /\ pc = "drain"
    /\ Len(ch) = 0
    /\ closed
    /\ ret' = Aggregate(all, errs, Len(connectors))
    /\ pc' = "returned"
    /\ UNCHANGED <<connectors, env, ctx, ctxSeen, call, active, next, wg, gor, ch, closed, all, errs, outcome, calls>>

\* The range loop ends on the closed, empty channel; the decision follows.
Return ==
    /\ pc = "drain"
    /\ Len(ch) = 0
    /\ closed
    /\ ret' = Aggregate(all, errs, Len(active))
    /\ pc' = "returned"
    /\ UNCHANGED <<connectors, env, ctx, ctxSeen, call, active, next, wg, gor, ch, closed, all, errs, outcome, calls>>

Next ==
    \/ Search
    \/ \E s \in SourcesArgs \cup DupSourcesArgs : SearchWithSources(s)
    \/ Dispatch
    \/ \E k \in DOMAIN gor : \E o \in Outcomes(active[k]) : ConnectorSearch(k, o)
    \/ \E k \in DOMAIN gor : Send(k)
    \/ \E k \in DOMAIN gor : Done(k)
    \/ Wait
    \/ Drain
    \/ Return

Spec == Init /\ [][Next]_vars

\* ------------------------------------------------ the caller's context
\* The caller cancels the context it passed (or is about to pass) to Search,
\* before the call or while connectors may still be running.
CallerCancel ==
    /\ ~ctx.done
    /\ pc \in {"idle", "dispatch", "wait"}
    /\ ctx' = [done |-> TRUE, by |-> "caller"]
    /\ UNCHANGED <<connectors, frame, env>>

\* The calls looked at under cancellation: Search, and SearchWithSources
\* with a filter.
CtxSourcesArgs == {[isNil |-> FALSE, list |-> <<"gdrive">>]}

NextCtx ==
    \/ Search
    \/ \E s \in CtxSourcesArgs : SearchWithSources(s)
    \/ Dispatch
    \/ \E k \in DOMAIN gor : \E o \in Outcomes(active[k]) : ConnectorSearch(k, o)
    \/ \E k \in DOMAIN gor : Send(k)
    \/ \E k \in DOMAIN gor : Done(k)
    \/ Wait
    \/ Drain
    \/ Return
    \/ CallerCancel

SpecCtx == Init /\ [][NextCtx]_vars

\* ------------------------------------------------ the /search handler
\* Values of the q parameter.
QParams == {Absent(""), Present(""), Present("hello")}
\* Values of the sources parameter. A text is the sequence of its pieces:
\* the commas and the comma-free runs between them.
SourcesTexts ==
    {<<>>, <<"gdrive">>, <<"nonexistent">>, <<"gdrive", ",", "gmail">>, <<"gmail", ",">>}
SourcesParams == {Absent(<<>>)} \cup {Present(t) : t \in SourcesTexts}
Requests == {[seen |-> TRUE, q |-> qp, sources |-> sp] : qp \in QParams, sp \in SourcesParams}

RECURSIVE SplitFrom(_, _, _)
\* strings.Split(text, ","): the runs between the commas, "" where two
\* commas meet or the text starts or ends with one.
SplitFrom(text, i, run) ==
    IF i > Len(text) THEN <<run>>
    ELSE IF text[i] = "," THEN <<run>> \o SplitFrom(text, i + 1, "")
    ELSE SplitFrom(text, i + 1, text[i])
Split(text) == SplitFrom(text, 1, "")

\* Variant: names that are no known connector are dropped from the list.
HandlerSourcesValidated(r) ==
    LET s == Get(r.sources, <<>>)
    IN IF s # <<>>
       THEN [isNil |-> FALSE, list |-> SelectSeq(Split(s), LAMBDA n : n \in Names)]
       ELSE NilSources

\* var sources []string; if s := Get("sources"); s != "" { sources = Split(s) }
HandlerSources(r) ==
    LET s == Get(r.sources, <<>>)
    IN IF s # <<>> THEN [isNil |-> FALSE, list |-> Split(s)] ELSE NilSources

\* err.Error() of fmt.Errorf("all connectors failed: %v", errs)
ErrorOf(r) == [text |-> "all connectors failed", detail |-> r.errs]
\* json.NewEncoder(w).Encode(map[string]string{"error": msg})
ErrorBody(msg) == [kind |-> "error", error |-> msg, items |-> <<>>]
\* json.NewEncoder(w).Encode(results): a nil slice encodes as null.
EncodeJSON(r) ==
    [kind |-> IF r.isNil THEN "null" ELSE "array",
     error |-> [text |-> "", detail |-> <<>>],
     items |-> r.results]

\* A request reaches the handler.
Receive(r) ==
    /\ ~req.seen
    /\ pc = "idle"
    /\ req' = r
    /\ UNCHANGED <<connectors, frame, ctx, parked, cur, behaviour, resp, serving, ui>>

\* q is missing or empty: 400 and the JSON error body.
BadRequest ==
    /\ req.seen
    /\ resp = NoResp
    /\ Get(req.q, "") = ""
    /\ resp' = [status |-> 400,
                body |-> ErrorBody([text |-> "missing required parameter: q", detail |-> <<>>])]
    /\ UNCHANGED <<connectors, frame, ctx, parked, cur, behaviour, req, serving, ui>>

\* Variant: the search function is called whatever q is.
CallSearchFnUnchecked ==
    /\ req.seen
    /\ resp = NoResp
    /\ SearchWithSources(HandlerSources(req))

\* results, err := searchFn(r.Context(), q, sources), the search function
\* being engine.SearchWithSources.
CallSearchFn ==
    /\ req.seen
    /\ resp = NoResp
    /\ Get(req.q, "") # ""
    /\ SearchWithSources(HandlerSources(req))

\* Variant: the error is written into a 200 response.
RespondAlwaysOK ==
    /\ req.seen
    /\ resp = NoResp
    /\ pc = "returned"
    /\ resp' = IF ret.failed
               THEN [status |-> 200, body |-> ErrorBody(ErrorOf(ret))]
               ELSE [status |-> 200, body |-> EncodeJSON(ret)]
    /\ UNCHANGED <<connectors, frame, ctx, parked, cur, behaviour, req, serving, ui>>

\* The search function returned: 500 with the error's message, or the
\* results encoded as JSON with the default status 200.
Respond ==
    /\ req.seen
    /\ resp = NoResp
    /\ pc = "returned"
    /\ resp' = IF ret.failed
               THEN [status |-> 500, body |-> ErrorBody(ErrorOf(ret))]
               ELSE [status |-> 200, body |-> EncodeJSON(ret)]
    /\ UNCHANGED <<connectors, frame, ctx, parked, cur, behaviour, req, serving, ui>>

NextHTTP ==
    \/ \E r \in Requests : Receive(r)
    \/ BadRequest
    \/ CallSearchFn
    \/ Dispatch
    \/ \E k \in DOMAIN gor : \E o \in Outcomes(active[k]) : ConnectorSearch(k, o)
    \/ \E k \in DOMAIN gor : Send(k)
    \/ \E k \in DOMAIN gor : Done(k)
    \/ Wait
    \/ Drain
    \/ Return
    \/ Respond

SpecHTTP == Init /\ [][NextHTTP]_vars

\* ------------------------------------------------ concurrent callers
\* Two callers share one engine. Each has its own activation of Search:
\* the variables of frame are the locals of the caller that takes the next
\* step, parked holds the locals of the other one.
ConcEngine == <<"gdrive", "gmail">>
\* The connectors answer every call the same way: with hits, or an error.
ConcOutcomes(i) ==
    {[res |-> [j \in 1..MaxResults |-> Result(i, j)], err |-> NoErr], [res |-> <<>>, err |-> "refused"]}
ConcBehaviours ==
    {b \in [1..Len(ConcEngine) -> UNION {ConcOutcomes(i) : i \in 1..Len(ConcEngine)}] :
        \A i \in DOMAIN b : b[i] \in ConcOutcomes(i)}
ConcSourcesArgs == {[isNil |-> FALSE, list |-> <<"gdrive">>]}

IdleFrame(cs) ==
    <<"idle", NoCall, <<>>, 1, 0, <<>>, <<>>, FALSE, <<>>, <<>>, NoRet,
      [i \in 1..Len(cs) |-> NoOutcome], [i \in 1..Len(cs) |-> 0], [i \in 1..Len(cs) |-> NoCtx]>>

InitConc ==
    /\ connectors = New(ConcEngine)
    /\ pc = "idle"
    /\ call = NoCall
    /\ active = <<>>
    /\ next = 1
    /\ wg = 0
    /\ gor = <<>>
    /\ ch = <<>>
    /\ closed = FALSE
    /\ all = <<>>
    /\ errs = <<>>
    /\ ret = NoRet
    /\ outcome = [i \in 1..Len(connectors) |-> NoOutcome]
    /\ calls = [i \in 1..Len(connectors) |-> 0]
    /\ ctxSeen = [i \in 1..Len(connectors) |-> NoCtx]
    /\ parked = IdleFrame(connectors)
    /\ cur = 1
    /\ behaviour \in ConcBehaviours
    /\ ctx = Background
    /\ req = NoReq
    /\ resp = NoResp
    /\ loop = NoLoop
    /\ server = NewServer
    /\ tui = NewModel
    /\ auth = NoFlow

\* Variant: the channel is a field of the engine, shared by all callers.
SwitchSharedChan ==
    /\ parked' = frame
    /\ pc' = parked[1]
    /\ call' = parked[2]
    /\ active' = parked[3]
    /\ next' = parked[4]
    /\ wg' = parked[5]
    /\ gor' = parked[6]
    /\ UNCHANGED <<ch, closed>>
    /\ all' = parked[9]
    /\ errs' = parked[10]
    /\ ret' = parked[11]
    /\ outcome' = parked[12]
    /\ calls' = parked[13]
    /\ ctxSeen' = parked[14]
    /\ cur' = 3 - cur
    /\ UNCHANGED <<connectors, ctx, behaviour, req, resp, serving, ui>>

\* The scheduler turns to the other caller. ch, wg, all and errs are
\* locals of Search, so each caller finds its own again.
Switch ==
    /\ parked' = frame
    /\ pc' = parked[1]
    /\ call' = parked[2]
    /\ active' = parked[3]
    /\ next' = parked[4]
    /\ wg' = parked[5]
    /\ gor' = parked[6]
    /\ ch' = parked[7]
    /\ closed' = parked[8]
    /\ all' = parked[9]
    /\ errs' = parked[10]
    /\ ret' = parked[11]
    /\ outcome' = parked[12]
    /\ calls' = parked[13]
    /\ ctxSeen' = parked[14]
    /\ cur' = 3 - cur
    /\ UNCHANGED <<connectors, ctx, behaviour, req, resp, serving, ui>>

NextConc ==
    \/ Search
    \/ \E s \in ConcSourcesArgs : SearchWithSources(s)
    \/ Dispatch
    \/ \E k \in DOMAIN gor : ConnectorSearch(k, behaviour[active[k]])
    \/ \E k \in DOMAIN gor : Send(k)
    \/ \E k \in DOMAIN gor : Done(k)
    \/ Wait
    \/ Drain
    \/ Return
    \/ Switch

SpecConc == InitConc /\ [][NextConc]_vars

\* ------------------------------------------------ the API client
\* The sources arguments given to Client.Search: nil, or a list of names,
\* the empty name among them.
ClientSourcesArgs ==
    {NilSources} \cup {[isNil |-> FALSE, list |-> l] : l \in SeqsUpTo(SourceNames \cup {""}, MaxClientSources)}

RECURSIVE JoinFrom(_, _, _)
\* strings.Join(list, sep) as the pieces of the text; an empty name adds none.
JoinFrom(list, i, sep) ==
    IF i > Len(list) THEN <<>>
    ELSE (IF i > 1 THEN <<sep>> ELSE <<>>)
         \o (IF list[i] = "" THEN <<>> ELSE <<list[i]>>)
         \o JoinFrom(list, i + 1, sep)
\* Variant: the names are joined with semicolons.
JoinSemicolon(list) == JoinFrom(list, 1, ";")
\* strings.Join(sources, ",")
Join(list) == JoinFrom(list, 1, ",")

\* url.Values.Encode: a comma is written %2C, letters and '-' as they are.
QueryEscape(text) == [k \in DOMAIN text |-> IF text[k] = "," THEN "%2C" ELSE text[k]]
\* What r.URL.Query() makes of the raw query.
QueryUnescape(raw) == [k \in DOMAIN raw |-> IF raw[k] = "%2C" THEN "," ELSE raw[k]]

\* The sources parameter of the URL Client.Search builds.
ClientParam(sources) ==
    IF Len(sources.list) > 0 THEN Present(QueryEscape(Join(sources.list))) ELSE Absent(<<>>)
\* The parameter as the handler finds it.
ServerParam(param) ==
    IF param.present THEN Present(QueryUnescape(param.value)) ELSE param

\* Client.Search(ctx, query, sources) sends GET /search?q=...&sources=...
ClientSearch(sources) ==
    /\ ~req.seen
    /\ pc = "idle"
    /\ Len(behaviour) = 0
    /\ behaviour' = <<sources>>
    /\ req' = [seen |-> TRUE, q |-> Present("hello"), sources |-> ServerParam(ClientParam(sources))]
    /\ UNCHANGED <<connectors, frame, ctx, parked, cur, resp, serving, ui>>

NextClient ==
    \/ \E s \in ClientSourcesArgs : ClientSearch(s)
    \/ CallSearchFn
    \/ Dispatch
    \/ \E k \in DOMAIN gor : \E o \in Outcomes(active[k]) : ConnectorSearch(k, o)
    \/ \E k \in DOMAIN gor : Send(k)
    \/ \E k \in DOMAIN gor : Done(k)
    \/ Wait
    \/ Drain
    \/ Return
    \/ Respond

\* The server the client talks to has an engine with one connector.
InitClient == Init /\ connectors = New(<<"gdrive">>)
SpecClient == InitClient /\ [][NextClient]_vars

\* ------------------------------------------------ the production search function
\* Name() of the Drive and of the Gmail connector.
DriveName == "google-drive"
GmailName == "gmail"
\* How the set-up of one call of the search function goes: all of it works,
\* or the first failure is the one named.
Setups == {"ok", "config", "credentials", "token", "drive", "gmail"}
NoSetup == [setup |-> "none", sources |-> NilSources]
\* The sources lists the callers of the search function are documented to send.
ProdSourcesArgs ==
    {NilSources} \cup
    {[isNil |-> FALSE, list |-> l] :
        l \in {<<"gdrive">>, <<"gmail">>, <<"google-drive">>, <<"gdrive", "gmail">>}}
\* The error of a failed set-up step, as the search function returns it.
SetupError(step) == [name |-> "pkb", cause |-> step]

InitProd ==
    /\ connectors = <<>>
    /\ pc = "idle"
    /\ call = NoCall
    /\ active = <<>>
    /\ next = 1
    /\ wg = 0
    /\ gor = <<>>
    /\ ch = <<>>
    /\ closed = FALSE
    /\ all = <<>>
    /\ errs = <<>>
    /\ ret = NoRet
    /\ outcome = <<>>
    /\ calls = <<>>
    /\ ctxSeen = <<>>
    /\ ctx = Background
    /\ parked = NoFrame
    /\ cur = 1
    /\ behaviour = NoSetup
    /\ req = NoReq
    /\ resp = NoResp
    /\ loop = NoLoop
    /\ server = NewServer
    /\ tui = NewModel
    /\ auth = NoFlow

\* The engine the search function builds.
ProdEngine(setup) == IF setup = "gmail" THEN New(<<DriveName>>) ELSE New(<<DriveName, GmailName>>)

\* Variant: a Gmail client error is returned like a Drive client error.
ProdSearchFnGmailRequired(sources, setup) ==
    /\ behaviour = NoSetup
    /\ pc = "idle"
    /\ behaviour' = [setup |-> setup, sources |-> sources]
    /\ IF setup # "ok"
       THEN /\ ReturnNow([results |-> <<>>, isNil |-> TRUE, failed |-> TRUE,
                          errs |-> <<SetupError(setup)>>])
            /\ UNCHANGED <<connectors, outcome, calls, ctxSeen>>
       ELSE /\ connectors' = ProdEngine(setup)
            /\ outcome' = [i \in 1..Len(connectors') |-> NoOutcome]
            /\ calls' = [i \in 1..Len(connectors') |-> 0]
            /\ ctxSeen' = [i \in 1..Len(connectors') |-> NoCtx]
            /\ UNCHANGED <<pc, active, next, wg, gor, ch, closed, all, errs, ret>>
    /\ UNCHANGED <<call, ctx, parked, cur, req, resp, serving, ui>>

\* The function buildSearchFn returns, up to the construction of the engine:
\* a failed configuration, missing credentials, an unreadable token or a
\* failed Drive client end the call with that error; a failed Gmail client
\* leaves an engine with the Drive connector alone.
ProdSearchFn(sources, setup) ==
    /\ behaviour = NoSetup
    /\ pc = "idle"
    /\ behaviour' = [setup |-> setup, sources |-> sources]
    /\ IF setup \notin {"ok", "gmail"}
       THEN /\ ReturnNow([results |-> <<>>, isNil |-> TRUE, failed |-> TRUE,
                          errs |-> <<SetupError(setup)>>])
            /\ UNCHANGED <<connectors, outcome, calls, ctxSeen>>
       ELSE /\ connectors' = ProdEngine(setup)
            /\ outcome' = [i \in 1..Len(connectors') |-> NoOutcome]
            /\ calls' = [i \in 1..Len(connectors') |-> 0]
            /\ ctxSeen' = [i \in 1..Len(connectors') |-> NoCtx]
            /\ UNCHANGED <<pc, active, next, wg, gor, ch, closed, all, errs, ret>>
    /\ UNCHANGED <<call, ctx, parked, cur, req, resp, serving, ui>>

\* return engine.SearchWithSources(ctx, query, sources)
ProdEngineSearch ==
    /\ behaviour # NoSetup
    /\ Len(connectors) > 0
    /\ call = NoCall
    /\ SearchWithSources(behaviour.sources)

NextProd ==
    \/ \E s \in ProdSourcesArgs : \E t \in Setups : ProdSearchFn(s, t)
    \/ ProdEngineSearch
    \/ Dispatch
    \/ \E k \in DOMAIN gor : \E o \in Outcomes(active[k]) : ConnectorSearch(k, o)
    \/ \E k \in DOMAIN gor : Send(k)
    \/ \E k \in DOMAIN gor : Done(k)
    \/ Wait
    \/ Drain
    \/ Return

SpecProd == InitProd /\ [][NextProd]_vars

\* ------------------------------------------------ the server and serveLoop
MaxListens == 2
MaxConns == 1
Signals == {"SIGINT", "SIGTERM"}
\* What Serve may return once it accepts connections.
ServeErrors == {ErrServerClosed, ErrAccept}
\* What Shutdown may return.
ShutdownErrors == {NoErr, ErrShutdown}
Unchanged == UNCHANGED <<connectors, frame, ctx, parked, cur, behaviour, req, resp, ui>>

\* Variant: a failed Listen leaves a listener behind.
ListenKeepsFailed(ok) ==
    /\ server.listens < MaxListens
    /\ server' = [server EXCEPT !.listens = @ + 1,
                                !.bound = IF ok THEN @ + 1 ELSE @,
                                !.listener = "bound"]
    /\ UNCHANGED loop
    /\ Unchanged

\* Server.Listen(): net.Listen binds the socket or fails; the listener is
\* stored only when it succeeded.
Listen(ok) ==
    /\ server.listens < MaxListens
    /\ server' = [server EXCEPT !.listens = @ + 1,
                                !.bound = IF ok THEN @ + 1 ELSE @,
                                !.listener = IF ok THEN "bound" ELSE @]
    /\ UNCHANGED loop
    /\ Unchanged

\* Server.Addr(): "" without a listener, its address otherwise.
Addr ==
    /\ server' = [server EXCEPT !.addrSeen = IF server.listener = "nil" THEN "" ELSE "127.0.0.1:8080"]
    /\ UNCHANGED loop
    /\ Unchanged

\* errCh := make(chan error, 1)
ErrChCap == 1
\* ch := make(chan os.Signal, 1)
SigChCap == 1

\* serveLoop up to its select: the error channel, the goroutine that will
\* call Serve, the signal channel and its registration.
ServeLoopStart ==
    /\ loop.pc = "idle"
    /\ loop' = [loop EXCEPT !.pc = "select", !.gpc = "serve", !.errCh = <<>>,
                            !.sigCh = <<>>, !.registered = TRUE]
    /\ UNCHANGED server
    /\ Unchanged

\* The goroutine calls srv.Serve(): without a listener it returns at once
\* with an error, with one it starts accepting connections, unless the
\* server was shut down already.
ServeCall ==
    /\ loop.gpc = "serve"
    /\ IF server.listener = "nil"
       THEN /\ loop' = [loop EXCEPT !.gpc = "send", !.gerr = ErrMustListen]
            /\ UNCHANGED server
       ELSE IF server.shut
       THEN /\ loop' = [loop EXCEPT !.gpc = "send", !.gerr = ErrServerClosed]
            /\ UNCHANGED server
       ELSE /\ loop' = [loop EXCEPT !.gpc = "accepting"]
            /\ server' = [server EXCEPT !.accepting = TRUE]
    /\ Unchanged

\* A client's request is being served on an accepted connection.
Connect ==
    /\ server.accepting
    /\ ~server.shut
    /\ server.conns + server.served < MaxConns
    /\ server' = [server EXCEPT !.conns = @ + 1]
    /\ UNCHANGED loop
    /\ Unchanged

\* The request is answered, the connection is idle again.
ConnIdle ==
    /\ server.conns > 0
    /\ server' = [server EXCEPT !.conns = @ - 1, !.served = @ + 1]
    /\ UNCHANGED loop
    /\ Unchanged

\* The contexts a caller hands to Server.Shutdown: one that is never done,
\* or one with a deadline.
ShutdownCtxs == {"background", "timeout"}
ErrDeadline == "context deadline exceeded"

\* Server.Shutdown(ctx) called by the owner of the server, not by serveLoop:
\* the listener is closed and the call waits for the connections.
Shutdown(c) ==
    /\ server.closer = "none"
    /\ server' = [server EXCEPT !.shut = TRUE, !.closer = "waiting", !.closerCtx = c,
                                !.closerBusy = server.conns > 0]
    /\ UNCHANGED loop
    /\ Unchanged

\* That call returns nil once no connection is active.
ShutdownReturned ==
    /\ server.closer = "waiting"
    /\ server.conns = 0
    /\ server' = [server EXCEPT !.closer = "returned", !.closerErr = NoErr]
    /\ UNCHANGED loop
    /\ Unchanged

\* The context is done while Shutdown waits for a connection it found
\* active: the call returns ctx.Err(), whatever the connections do.
ShutdownExpired ==
    /\ server.closer = "waiting"
    /\ server.closerCtx = "timeout"
    /\ server.closerBusy
    /\ server' = [server EXCEPT !.closer = "returned", !.closerErr = ErrDeadline]
    /\ UNCHANGED loop
    /\ Unchanged

\* Serve returns: with ErrServerClosed after a shutdown or a close, or with
\* another error.
ServeReturns(e) ==
    /\ loop.gpc = "accepting"
    /\ server.shut => e = ErrServerClosed
    /\ loop' = [loop EXCEPT !.gpc = "send", !.gerr = e]
    /\ server' = [server EXCEPT !.accepting = FALSE]
    /\ Unchanged

\* Variant: an unbuffered error channel, the send needs serveLoop at its select.
ErrSendUnbuffered ==
    /\ loop.gpc = "send"
    /\ loop.pc = "select"
    /\ Len(loop.errCh) < ErrChCap
    /\ loop' = [loop EXCEPT !.gpc = "exit", !.errCh = Append(@, loop.gerr)]
    /\ UNCHANGED server
    /\ Unchanged

\* The goroutine: errCh <- err.
ErrSend ==
    /\ loop.gpc = "send"
    /\ Len(loop.errCh) < ErrChCap
    /\ loop' = [loop EXCEPT !.gpc = "exit", !.errCh = Append(@, loop.gerr)]
    /\ UNCHANGED server
    /\ Unchanged

\* The process gets a signal: the runtime puts it into the registered
\* channel if there is room and drops it otherwise.
Signal(sig) ==
    /\ loop.registered
    /\ Len(loop.sigCh) < SigChCap
    /\ loop' = [loop EXCEPT !.sigCh = Append(@, sig)]
    /\ UNCHANGED server
    /\ Unchanged

\* Variant: on a signal serveLoop goes on to its return without shutting
\* the server down.
SelectSignalNoShutdown(e) ==
    /\ loop.pc = "select"
    /\ Len(loop.sigCh) > 0
    /\ loop' = [loop EXCEPT !.pc = "shutdown", !.via = "signal",
                            !.sigCh = Tail(@),
                            !.out = Append(@, [received |-> Head(loop.sigCh)])]
    /\ server' = [server EXCEPT !.shutErr = e]
    /\ Unchanged

\* case sig := <-sigCh: the message, and the call of srv.Shutdown, which
\* closes the listener (with or without an error) and then waits for the
\* connections; serveLoop is still registered for signals.
SelectSignal(e) ==
    /\ loop.pc = "select"
    /\ Len(loop.sigCh) > 0
    /\ loop' = [loop EXCEPT !.pc = "shutdown", !.via = "signal",
                            !.sigCh = Tail(@),
                            !.out = Append(@, [received |-> Head(loop.sigCh)]),
                            !.shutdowns = @ + 1]
    /\ server' = [server EXCEPT !.shut = TRUE, !.shutErr = e]
    /\ Unchanged

\* srv.Shutdown returns once no connection is active: the return value
\* of serveLoop, and the deferred stopSignals().
ShutdownReturns ==
    /\ loop.pc = "shutdown"
    /\ server.conns = 0
    /\ loop' = [loop EXCEPT !.pc = "returned",
                            !.ret = IF server.shutErr = NoErr THEN [wraps |-> "", err |-> NoErr]
                                    ELSE [wraps |-> "shutdown", err |-> server.shutErr],
                            !.registered = FALSE, !.stops = @ + 1]
    /\ UNCHANGED server
    /\ Unchanged

\* Variant: every error of Serve is returned, ErrServerClosed too.
SelectErrReturnsAll ==
    /\ loop.pc = "select"
    /\ Len(loop.errCh) > 0
    /\ loop' = [loop EXCEPT !.pc = "returned", !.via = "serve",
                            !.errCh = Tail(@),
                            !.ret = [wraps |-> "", err |-> Head(loop.errCh)],
                            !.registered = FALSE, !.stops = @ + 1]
    /\ UNCHANGED server
    /\ Unchanged

\* case err := <-errCh: nil for ErrServerClosed, the error otherwise, and
\* the deferred stopSignals().
SelectErr ==
    /\ loop.pc = "select"
    /\ Len(loop.errCh) > 0
    /\ loop' = [loop EXCEPT !.pc = "returned", !.via = "serve",
                            !.errCh = Tail(@),
                            !.ret = IF Head(loop.errCh) = ErrServerClosed
                                    THEN [wraps |-> "", err |-> NoErr]
                                    ELSE [wraps |-> "", err |-> Head(loop.errCh)],
                            !.registered = FALSE, !.stops = @ + 1]
    /\ UNCHANGED server
    /\ Unchanged

NextServe ==
    \/ \E ok \in BOOLEAN : Listen(ok)
    \/ Addr
    \/ ServeLoopStart
    \/ ServeCall
    \/ \E e \in ServeErrors : ServeReturns(e)
    \/ ErrSend
    \/ \E sig \in Signals : Signal(sig)
    \/ \E e \in ShutdownErrors : SelectSignal(e)
    \/ ShutdownReturns
    \/ SelectErr
    \/ Connect
    \/ ConnIdle
    \/ \E c \in ShutdownCtxs : Shutdown(c)
    \/ ShutdownReturned
    \/ ShutdownExpired

InitServe == Init /\ connectors = New(<<>>)
SpecServe == InitServe /\ [][NextServe]_vars

\* ------------------------------------------------ the terminal UI
MaxSearches == 2
\* What the user may type into the text input.
Texts == {"", "test"}
\* What a search of the TUI may return: as a connector's Search does.
TuiOutcomes == Outcomes(1)
UnchangedByTui == UNCHANGED <<connectors, frame, ctx, parked, cur, behaviour, req, resp, serving, auth>>
Handled(m, key) == [m EXCEPT !.last = [msg |-> key, id |-> 0, err |-> NoErr]]

\* case tea.KeyCtrlC: return m, tea.Quit
KeyCtrlC ==
    /\ ~tui.quit
    /\ tui' = [Handled(tui, "ctrl+c") EXCEPT !.quit = TRUE]
    /\ UnchangedByTui

\* Variant: Escape quits in every state.
KeyEscapeQuits ==
    /\ ~tui.quit
    /\ tui' = [Handled(tui, "esc") EXCEPT !.quit = TRUE]
    /\ UnchangedByTui

\* case tea.KeyEscape: back to the input state, or quit from there. The
\* context of a running search is context.Background(): nothing cancels it.
KeyEscape ==
    /\ ~tui.quit
    /\ tui' = IF tui.state # "input"
              THEN [Handled(tui, "esc") EXCEPT
                        !.state = "input", !.focused = TRUE,
                        !.waiting = 0,
                        !.escaped = IF tui.state = "loading" THEN @ \cup tui.pending ELSE @]
              ELSE [Handled(tui, "esc") EXCEPT !.quit = TRUE]
    /\ UnchangedByTui

\* Variant: Enter starts a search in every state.
KeyEnterAlways ==
    /\ ~tui.quit
    /\ tui.issued < MaxSearches
    /\ tui' = [Handled(tui, "enter") EXCEPT
                    !.state = "loading", !.issued = @ + 1, !.waiting = tui.issued + 1,
                    !.pending = @ \cup {tui.issued + 1}]
    /\ UnchangedByTui

\* case tea.KeyEnter: in the input state with a query, loading and the
\* command of doSearch; with an empty query nothing; in the other states
\* nothing either.
KeyEnter ==
    /\ ~tui.quit
    /\ (tui.state = "input" /\ tui.value # "") => tui.issued < MaxSearches
    /\ tui' = IF tui.state = "input" /\ tui.value # ""
              THEN [Handled(tui, "enter") EXCEPT
                        !.state = "loading", !.issued = @ + 1, !.waiting = tui.issued + 1,
                        !.pending = @ \cup {tui.issued + 1}]
              ELSE Handled(tui, "enter")
    /\ UnchangedByTui

\* case tea.KeyUp
KeyUp ==
    /\ ~tui.quit
    /\ tui' = IF tui.state = "results" /\ tui.cursor > 0
              THEN [Handled(tui, "up") EXCEPT !.cursor = @ - 1]
              ELSE Handled(tui, "up")
    /\ UnchangedByTui

\* Variant: Down moves on whatever the number of results.
KeyDownUnbounded ==
    /\ ~tui.quit
    /\ tui' = IF tui.state = "results"
              THEN [Handled(tui, "down") EXCEPT !.cursor = @ + 1]
              ELSE Handled(tui, "down")
    /\ UnchangedByTui

\* case tea.KeyDown
KeyDown ==
    /\ ~tui.quit
    /\ tui' = IF tui.state = "results" /\ tui.cursor < Len(tui.results) - 1
              THEN [Handled(tui, "down") EXCEPT !.cursor = @ + 1]
              ELSE Handled(tui, "down")
    /\ UnchangedByTui

\* Any other key goes to the text input in the input state: the user
\* edits the query.
KeyRunes(text) ==
    /\ ~tui.quit
    /\ tui' = IF tui.state = "input" /\ tui.focused
              THEN [Handled(tui, "runes") EXCEPT !.value = text]
              ELSE Handled(tui, "runes")
    /\ UnchangedByTui

\* Variant: a failed search empties the result list.
handleSearchResultResets(id, o) ==
    /\ ~tui.quit
    /\ id \in tui.pending
    /\ tui' = IF o.err # NoErr
              THEN [tui EXCEPT !.err = o.err, !.state = "input", !.focused = TRUE,
                               !.results = <<>>, !.cursor = 0,
                               !.pending = @ \ {id}, !.waiting = IF @ = id THEN 0 ELSE @,
                               !.last = [msg |-> "result", id |-> id, err |-> o.err]]
              ELSE [tui EXCEPT !.results = o.res, !.cursor = 0, !.state = "results",
                               !.pending = @ \ {id}, !.waiting = IF @ = id THEN 0 ELSE @,
                               !.last = [msg |-> "result", id |-> id, err |-> o.err]]
    /\ UnchangedByTui

\* The command of search id returns searchResultMsg{results, err} and
\* Update hands it to handleSearchResult.
handleSearchResult(id, o) ==
    /\ ~tui.quit
    /\ id \in tui.pending
    /\ tui' = IF o.err # NoErr
              THEN [tui EXCEPT !.err = o.err, !.state = "input", !.focused = TRUE,
                               !.pending = @ \ {id}, !.waiting = IF @ = id THEN 0 ELSE @,
                               !.last = [msg |-> "result", id |-> id, err |-> o.err]]
              ELSE [tui EXCEPT !.results = o.res, !.cursor = 0, !.state = "results",
                               !.pending = @ \ {id}, !.waiting = IF @ = id THEN 0 ELSE @,
                               !.last = [msg |-> "result", id |-> id, err |-> o.err]]
    /\ UnchangedByTui

NextTui ==
    \/ KeyCtrlC
    \/ KeyEscape
    \/ KeyEnter
    \/ KeyUp
    \/ KeyDown
    \/ \E text \in Texts : KeyRunes(text)
    \/ \E id \in 1..MaxSearches : \E o \in TuiOutcomes : handleSearchResult(id, o)

InitTui == Init /\ connectors = New(<<>>)
SpecTui == InitTui /\ [][NextTui]_vars

\* ------------------------------------------------ the OAuth flow
MaxCallbacks == 2
ErrNoCode == "no code in callback"
ErrCanceled == "context canceled"
ErrListen == "address already in use"
ErrBrowser == "no browser"
ErrExchange == "invalid grant"
\* codeCh := make(chan string, 1); errCh := make(chan error, 1)
CodeChCap == 1
AuthErrChCap == 1
UnchangedByAuth == UNCHANGED <<connectors, frame, ctx, parked, cur, behaviour, req, resp, serving, tui>>
\* A return statement of Run: the deferred srv.Shutdown(ctx) closes the listener.
Exiting(a, via, r) ==
    [a EXCEPT !.pc = "exiting", !.via = via, !.ret = r,
              !.shutdowns = @ + 1, !.listening = FALSE]

\* Run up to net.Listen: without the listener Run returns at once; with it
\* the callback server is started and its shutdown deferred.
RunListen(ok) ==
    /\ auth.pc = "idle"
    /\ auth' = IF ok
               THEN [auth EXCEPT !.pc = "open", !.listening = TRUE, !.started = TRUE]
               ELSE [auth EXCEPT !.pc = "returned", !.via = "listen",
                                 !.ret = [token |-> "", wraps |-> "start callback server", err |-> ErrListen]]
    /\ UnchangedByAuth

\* f.OpenURL(authURL)
RunOpenURL(ok) ==
    /\ auth.pc = "open"
    /\ auth' = IF ok
               THEN [auth EXCEPT !.pc = "select", !.opened = TRUE]
               ELSE Exiting(auth, "browser", [token |-> "", wraps |-> "open browser", err |-> ErrBrowser])
    /\ UnchangedByAuth

\* A request reaches /callback, with a code parameter or without.
Callback(hasCode) ==
    /\ auth.listening
    /\ auth.codes + auth.nocodes < MaxCallbacks
    /\ auth' = [auth EXCEPT !.handlers = Append(@, IF hasCode THEN "code" ELSE "nocode"),
                            !.codes = IF hasCode THEN @ + 1 ELSE @,
                            !.nocodes = IF hasCode THEN @ ELSE @ + 1]
    /\ UnchangedByAuth

\* The handler sends: errCh <- error, or codeCh <- code. It waits while
\* the channel is full.
HandlerSend(k) ==
    /\ k \in DOMAIN auth.handlers
    /\ IF auth.handlers[k] = "code"
       THEN /\ Len(auth.codeCh) < CodeChCap
            /\ auth' = [auth EXCEPT !.codeCh = Append(@, "test-code"),
                                    !.handlers = SubSeq(@, 1, k - 1) \o SubSeq(@, k + 1, Len(@))]
       ELSE /\ Len(auth.errCh) < AuthErrChCap
            /\ auth' = [auth EXCEPT !.errCh = Append(@, ErrNoCode),
                                    !.handlers = SubSeq(@, 1, k - 1) \o SubSeq(@, k + 1, Len(@))]
    /\ UnchangedByAuth

\* case code = <-codeCh
AuthSelectCode ==
    /\ auth.pc = "select"
    /\ Len(auth.codeCh) > 0
    /\ auth' = [auth EXCEPT !.pc = "exchange", !.via = "code", !.code = Head(auth.codeCh),
                            !.codeCh = Tail(@)]
    /\ UnchangedByAuth

\* Variant: a callback without a code lets Run go on to the exchange.
AuthSelectErrProceeds ==
    /\ auth.pc = "select"
    /\ Len(auth.errCh) > 0
    /\ auth' = [auth EXCEPT !.pc = "exchange", !.via = "nocode", !.errCh = Tail(@)]
    /\ UnchangedByAuth

\* case err := <-errCh: return nil, err
AuthSelectErr ==
    /\ auth.pc = "select"
    /\ Len(auth.errCh) > 0
    /\ auth' = [Exiting(auth, "nocode", [token |-> "", wraps |-> "", err |-> Head(auth.errCh)])
                    EXCEPT !.errCh = Tail(@)]
    /\ UnchangedByAuth

\* case <-ctx.Done(): return nil, ctx.Err()
AuthSelectCtx ==
    /\ auth.pc = "select"
    /\ ctx.done
    /\ auth' = Exiting(auth, "ctx", [token |-> "", wraps |-> "", err |-> ErrCanceled])
    /\ UnchangedByAuth

\* f.Config.Exchange(ctx, code): the token, or the wrapped error.
Exchange(ok) ==
    /\ auth.pc = "exchange"
    /\ auth' = IF ok
               THEN Exiting(auth, auth.via, [token |-> "test-token", wraps |-> "", err |-> NoErr])
               ELSE Exiting(auth, auth.via, [token |-> "", wraps |-> "exchange code", err |-> ErrExchange])
    /\ UnchangedByAuth

\* srv.Shutdown(ctx) returns when no handler is running any more or the
\* context is done, and Run returns.
RunReturn ==
    /\ auth.pc = "exiting"
    /\ Len(auth.handlers) = 0 \/ ctx.done
    /\ auth' = [auth EXCEPT !.pc = "returned"]
    /\ UnchangedByAuth

NextAuth ==
    \/ \E ok \in BOOLEAN : RunListen(ok)
    \/ \E ok \in BOOLEAN : RunOpenURL(ok)
    \/ \E hasCode \in BOOLEAN : Callback(hasCode)
    \/ \E k \in 1..MaxCallbacks : HandlerSend(k)
    \/ AuthSelectCode
    \/ AuthSelectErr
    \/ AuthSelectCtx
    \/ \E ok \in BOOLEAN : Exchange(ok)
    \/ RunReturn
    \/ CallerCancel

InitAuth == Init /\ connectors = New(<<>>)
SpecAuth == InitAuth /\ [][NextAuth]_vars

\* ---------------------------------------------------------------- properties
Range(q) == {q[k] : k \in DOMAIN q}
Count(q, x) == Cardinality({k \in DOMAIN q : q[k] = x})
\* Equal as multisets.
SameBag(a, b) ==
    /\ Len(a) = Len(b)
    /\ \A x \in Range(a) \cup Range(b) : Count(a, x) = Count(b, x)

RECURSIVE FlatFrom(_, _)
\* Concatenation of f[i], f[i+1], ... for a sequence f of sequences.
FlatFrom(f, i) == IF i > Len(f) THEN <<>> ELSE f[i] \o FlatFrom(f, i + 1)

Returned == pc = "returned"
Conns == 1..Len(connectors)
\* The call at hand puts no restriction on the connectors.
Unfiltered == call.op = "Search" \/ call.sources.isNil \/ Len(call.sources.list) = 0
\* Connector i is one the caller asked for.
IsSelected(i) == Unfiltered \/ connectors[i] \in Range(call.sources.list)
SelectedSet == {i \in Conns : IsSelected(i)}
Invoked(i) == calls[i] > 0
Succeeded(i) == Invoked(i) /\ outcome[i].err = NoErr
Failed(i) == Invoked(i) /\ outcome[i].err # NoErr
\* The hits of the selected connectors that succeeded, in engine order.
GoodResults ==
    FlatFrom([i \in Conns |-> IF IsSelected(i) /\ Succeeded(i) THEN outcome[i].res ELSE <<>>], 1)
\* The annotated failures of the selected connectors, in engine order.
OwnErrors ==
    FlatFrom([i \in Conns |-> IF IsSelected(i) /\ Failed(i)
                              THEN <<[name |-> connectors[i], cause |-> outcome[i].err]>>
                              ELSE <<>>], 1)

\* C1: partial-failure rule. Whenever a call has returned and at least one
\* selected connector succeeded (with or without hits), the call reports no
\* error, carries no failure detail, and its results are, as a multiset,
\* exactly the hits of the succeeding selected connectors.
C1_PartialFailure ==
    (Returned /\ \E i \in SelectedSet : Succeeded(i))
        => /\ ~ret.failed
           /\ ret.errs = <<>>
           /\ SameBag(ret.results, GoodResults)

\* A call returned after one connector succeeded with a hit and another one
\* failed while returning a stray hit.
C1_Witness ==
    /\ Returned
    /\ \E i, j \in SelectedSet :
          /\ Succeeded(i) /\ Len(outcome[i].res) > 0
          /\ Failed(j) /\ Len(outcome[j].res) > 0
    /\ ~ret.failed

\* C2: total-failure rule. Whenever a call has returned, at least one
\* connector was selected and every selected connector failed, the call
\* reports an error and no results, whatever the unselected connectors are.
C2_TotalFailure ==
    (Returned /\ SelectedSet # {} /\ \A i \in SelectedSet : Failed(i))
        => /\ ret.failed
           /\ Len(ret.results) = 0

\* A filter selected a strict subset of the connectors and all of it failed.
C2_Witness ==
    /\ Returned
    /\ SelectedSet # {}
    /\ SelectedSet # Conns
    /\ \A i \in SelectedSet : Failed(i)
    /\ ret.failed

\* C3: fan-out completeness. When Search has returned and every connector
\* of the engine succeeded, the result has as many hits as the connectors
\* returned together and holds, as a multiset, exactly their hits.
C3_FanOutComplete ==
    (Returned /\ call.op = "Search" /\ \A i \in Conns : Succeeded(i))
        => /\ ~ret.failed
           /\ Len(ret.results) = Len(FlatFrom([i \in Conns |-> outcome[i].res], 1))
           /\ SameBag(ret.results, FlatFrom([i \in Conns |-> outcome[i].res], 1))

\* Search returned the hits of two succeeding connectors, the second
\* connector's hit first.
C3_Witness ==
    /\ Returned
    /\ call.op = "Search"
    /\ Len(connectors) = 2
    /\ \A i \in Conns : Succeeded(i) /\ Len(outcome[i].res) > 0
    /\ Len(ret.results) = 2
    /\ ret.results[1].source = 2

\* C4: the caller is past wg.Wait() (draining, deciding or returned) only
\* when every dispatched goroutine has called its connector, delivered its
\* outcome and finished.
C4_ReturnsAfterAll ==
    (pc \in {"drain", "returned"})
        => \A k \in DOMAIN gor : gor[k].pc = "exit" /\ Invoked(active[k])

\* A call over two connectors returned; both goroutines had finished.
C4_Witness ==
    /\ Returned
    /\ Len(gor) = 2
    /\ \A k \in DOMAIN gor : gor[k].pc = "exit"

\* C5: source filter exactness. Under SearchWithSources with a non-empty
\* sources list, a connector's Search is invoked only if its name is one of
\* the listed strings, and every returned hit comes from such a connector.
C5_FilterExact ==
    (call.op = "SearchWithSources" /\ ~call.sources.isNil /\ Len(call.sources.list) > 0)
        => /\ \A i \in Conns : Invoked(i) => connectors[i] \in Range(call.sources.list)
           /\ \A x \in Range(ret.results) : connectors[x.source] \in Range(call.sources.list)

\* A filtered call returned the hit of the selected connector while the
\* engine's other connector, first in the engine, was never invoked.
C5_Witness ==
    /\ Returned
    /\ call.op = "SearchWithSources"
    /\ Len(call.sources.list) > 0
    /\ Len(connectors) = 2
    /\ ~Invoked(1)
    /\ Succeeded(2)
    /\ Len(ret.results) > 0

\* C6: unknown source names are ignored. On a non-empty engine, a call of
\* SearchWithSources whose non-empty sources list matches no connector name
\* has returned at once with an empty result and no error, and no connector
\* was invoked.
C6_UnknownSourceIgnored ==
    (/\ call.op = "SearchWithSources"
     /\ Len(connectors) > 0
     /\ Len(call.sources.list) > 0
     /\ \A i \in Conns : connectors[i] \notin Range(call.sources.list))
        => /\ Returned
           /\ ~ret.failed
           /\ Len(ret.results) = 0
           /\ \A i \in Conns : ~Invoked(i)

\* SearchWithSources(["nonexistent"]) returned on an engine of two connectors.
C6_Witness ==
    /\ Returned
    /\ call.op = "SearchWithSources"
    /\ Len(connectors) = 2
    /\ call.sources.list = <<"nonexistent">>
    /\ ~ret.failed

\* C7: zero-connector degeneracy. On an engine without connectors every
\* call returns a present (non-nil), empty result collection and no error.
C7_ZeroConnectorsPresent ==
    (Returned /\ Len(connectors) = 0)
        => /\ ~ret.failed
           /\ Len(ret.results) = 0
           /\ ~ret.isNil

\* C8: nil and empty filter are equivalent. Under SearchWithSources with a
\* nil or an empty non-nil sources list the outcome is the same function of
\* the connectors' behaviour: once returned, every connector of the engine
\* was invoked, the call fails exactly if there are connectors and all of
\* them failed, and otherwise the results are the hits of all succeeding
\* connectors; the collection is nil in the same cases for both.
C8_NilEmptyEquivalent ==
    (/\ Returned
     /\ call.op = "SearchWithSources"
     /\ call.sources.isNil \/ Len(call.sources.list) = 0)
        => /\ \A i \in Conns : Invoked(i)
           /\ ret.failed <=> (Conns # {} /\ \A i \in Conns : Failed(i))
           /\ ~ret.failed => SameBag(ret.results, GoodResults)
           /\ ret.isNil <=> (Conns # {} /\ (ret.failed \/ Len(GoodResults) = 0))

\* SearchWithSources with an empty, non-nil list returned the hits of both
\* connectors of the engine.
C8_Witness ==
    /\ Returned
    /\ call.op = "SearchWithSources"
    /\ ~call.sources.isNil
    /\ Len(call.sources.list) = 0
    /\ Len(connectors) = 2
    /\ Len(ret.results) = 2

\* C9: error attribution. When a call returns the total-failure error, the
\* error lists, as a multiset, exactly one entry per selected connector:
\* that connector's name paired with the error its own Search returned.
C9_ErrorAttribution ==
    (Returned /\ ret.failed)
        => /\ SameBag(ret.errs, OwnErrors)
           /\ \A i \in SelectedSet : \E e \in Range(ret.errs) :
                 e.name = connectors[i] /\ e.cause = outcome[i].err

\* Two connectors of different names failed with different errors, and the
\* second connector's failure was collected first.
C9_Witness ==
    /\ Returned
    /\ ret.failed
    /\ Len(ret.errs) = 2
    /\ connectors[1] # connectors[2]
    /\ outcome[1].err # outcome[2].err
    /\ ret.errs[1].name = connectors[2]

\* C10: true fan-out. While a selected connector is still to be started the
\* caller can start it, whatever the goroutines already started are doing;
\* and when the caller blocks in wg.Wait() every selected connector has
\* been started.
C10_TrueFanOut ==
    /\ (pc = "dispatch" /\ next <= Len(active)) => ENABLED Dispatch
    /\ (pc = "wait") => \A k \in DOMAIN gor : gor[k].pc # "none"

\* The caller waits while both connectors' Search calls are in flight, none
\* having returned.
C10_Witness ==
    /\ pc = "wait"
    /\ Len(gor) = 2
    /\ \A k \in DOMAIN gor : gor[k].pc = "search"

\* C12: within one call each selected connector's Search is invoked exactly
\* once. No connector is ever invoked twice (no retry after a failure, no
\* second invocation for a name listed twice), and once the call has returned
\* every selected connector has been invoked once and no other connector.
C12_InvokedOnce ==
    /\ \A i \in Conns : calls[i] <= 1
    /\ Returned => \A i \in Conns : calls[i] = (IF IsSelected(i) THEN 1 ELSE 0)

\* A call whose sources list names a connector twice returned after that
\* connector failed; it was invoked once.
C12_Witness ==
    /\ Returned
    /\ Len(call.sources.list) = 2
    /\ call.sources.list[1] = call.sources.list[2]
    /\ \E i \in Conns : IsSelected(i) /\ Failed(i) /\ calls[i] = 1

\* C14: Search(ctx, query) and SearchWithSources(ctx, query, nil) are the
\* same function of the connectors' behaviour: once either has returned,
\* every connector of the engine was invoked, the call fails exactly if
\* there are connectors and all of them failed, and otherwise its results
\* are, as a multiset, the hits of all succeeding connectors.
C14_SearchIsNilFilter ==
    (Returned /\ (call.op = "Search" \/ (call.op = "SearchWithSources" /\ call.sources.isNil)))
        => /\ \A i \in Conns : Invoked(i)
           /\ ret.failed <=> (Conns # {} /\ \A i \in Conns : outcome[i].err # NoErr)
           /\ ~ret.failed =>
                 SameBag(ret.results,
                         FlatFrom([i \in Conns |-> IF outcome[i].err = NoErr
                                                   THEN outcome[i].res ELSE <<>>], 1))

\* Search returned the hit of one connector while the other one failed.
C14_Witness ==
    /\ Returned
    /\ call.op = "Search"
    /\ Len(connectors) = 2
    /\ \E i, j \in Conns : Failed(i) /\ Succeeded(j) /\ Len(outcome[j].res) > 0
    /\ Len(ret.results) = 1

\* C18: completion order does not affect the outcome. Whatever the order in
\* which the goroutines delivered, the returned decision and the returned
\* multisets are those fixed by the engine, the filter and the connectors'
\* behaviour: failure exactly if some connector is selected and all selected
\* ones failed, then with all their annotated errors and no results;
\* otherwise no error detail and the hits of the succeeding selected ones.
C18_OrderIndependent ==
    Returned =>
        LET fail == SelectedSet # {} /\ \A i \in SelectedSet : outcome[i].err # NoErr
        IN /\ ret.failed = fail
           /\ SameBag(ret.results, IF fail THEN <<>> ELSE GoodResults)
           /\ SameBag(ret.errs, IF fail THEN OwnErrors ELSE <<>>)

\* SearchWithSources returned the hits of two connectors in the reverse of
\* the engine's order: the second connector delivered first.
C18_Witness ==
    /\ Returned
    /\ call.op = "SearchWithSources"
    /\ Len(connectors) = 2
    /\ \A i \in Conns : Succeeded(i) /\ Len(outcome[i].res) > 0
    /\ ret.results[1].source = 2

\* No goroutine that is about to send finds the fan-in channel full or
\* closed, and as long as the connectors' calls return the call is never
\* stuck: every state between the call and its return has a next step.
C19_NoBlockedSend ==
    /\ \A k \in DOMAIN gor :
          gor[k].pc = "send" => (~closed /\ Len(ch) < ChanCap(Len(active)))
    /\ Len(ch) <= ChanCap(Len(active))
    /\ (pc \notin {"idle", "returned"}) => ENABLED Next

\* Steps the call still has to take, at most: a measure that every step of
\* the caller and of a goroutine lowers.
GorRank(g) ==
    IF g.pc = "none" THEN 8
    ELSE IF g.pc = "search" THEN 6
    ELSE IF g.pc = "send" THEN 4
    ELSE IF g.pc = "done" THEN 1
    ELSE 0
RECURSIVE SumRank(_, _)
SumRank(gs, k) == IF k > Len(gs) THEN 0 ELSE GorRank(gs[k]) + SumRank(gs, k + 1)
Rank ==
    (IF pc = "idle" THEN 6 + 8 * Len(connectors)
     ELSE IF pc = "dispatch" THEN 5
     ELSE IF pc = "wait" THEN 4
     ELSE IF pc = "drain" THEN 3
     ELSE IF pc = "returned" THEN 0
     ELSE 0 - 1)
    + SumRank(gor, 1) + Len(ch)

\* C19: Search terminates without deadlock once the connectors' calls
\* return: no goroutine about to send ever finds the channel full or closed,
\* no state between the call and its return is stuck, and every step lowers
\* the number of steps left, so the return is reached after finitely many.
C19_Terminates ==
    /\ []C19_NoBlockedSend
    /\ [][Rank' < Rank]_vars

\* The last goroutine is about to send while the outcomes of all the
\* others are still queued, the caller not draining yet.
C19_Witness ==
    /\ pc = "wait"
    /\ Len(gor) = 2
    /\ Len(ch) = 1
    /\ \E k \in DOMAIN gor : gor[k].pc = "send"

\* C20: the fan-in loses and duplicates nothing. When wg.Wait() can return,
\* and so aggregation starts, the channel holds exactly one outcome per
\* dispatched connector, with that connector's name, results and error, and
\* their number is the number of selected connectors.
C20_OneOutcomeEach ==
    (pc = "wait" /\ wg = 0)
        => /\ Len(ch) = Cardinality(SelectedSet)
           /\ SameBag(ch, [k \in 1..Len(active) |->
                              [results |-> outcome[active[k]].res,
                               err |-> outcome[active[k]].err,
                               name |-> connectors[active[k]]]])

\* Both goroutines have delivered and finished: one success, one failure.
C20_Witness ==
    /\ pc = "wait"
    /\ wg = 0
    /\ Len(ch) = 2
    /\ ch[1].err # NoErr
    /\ ch[2].err = NoErr

\* C13: the caller's context reaches every connector call as it is and the
\* engine neither cancels it nor puts a deadline on it. Only the caller ever
\* cancels the context; every connector invoked was given the caller's
\* context in the state it had then; so while the caller has not cancelled,
\* every connector, also one run after another one finished, saw it
\* uncancelled; and the caller is past wg.Wait() only when all have finished.
C13_ContextUntouched ==
    /\ ctx \in {Background, [done |-> TRUE, by |-> "caller"]}
    /\ \A i \in Conns :
          Invoked(i) => /\ ctxSeen[i] \in {Background, [done |-> TRUE, by |-> "caller"]}
                        /\ ctxSeen[i].done => ctx.done
    /\ ~ctx.done => \A i \in Conns : Invoked(i) => ctxSeen[i] = Background
    /\ (pc \in {"drain", "returned"}) => \A k \in DOMAIN gor : gor[k].pc = "exit"

\* One connector has failed and its goroutine has finished; the caller waits
\* for the other one, whose Search is still to return, and the context is
\* not cancelled.
C13_Witness ==
    /\ pc = "wait"
    /\ Len(gor) = 2
    /\ gor[1].pc = "exit"
    /\ Failed(active[1])
    /\ gor[2].pc = "search"
    /\ ~Invoked(active[2])
    /\ ~ctx.done

\* C15: a request whose q parameter is missing or empty never reaches the
\* search function (no call, no connector invoked) and is answered, if at
\* all, with status 400 and the JSON error body.
C15_MissingQuery ==
    (req.seen /\ Get(req.q, "") = "")
        => /\ pc = "idle"
           /\ call = NoCall
           /\ \A i \in Conns : ~Invoked(i)
           /\ resp = NoResp \/
                (/\ resp.status = 400
                 /\ resp.body.kind = "error"
                 /\ resp.body.error.text = "missing required parameter: q")
           /\ resp = NoResp => ENABLED BadRequest

\* A request with q present but empty was answered with 400.
C15_Witness ==
    /\ req.seen
    /\ req.q = Present("")
    /\ resp.status = 400

\* C16: for a request with a non-empty q the response is 500 exactly if the
\* search function returned an error, its body then being the JSON error
\* object with that error's message; otherwise the response is 200.
C16_ErrorIff500 ==
    (req.seen /\ Get(req.q, "") # "" /\ resp # NoResp)
        => /\ Returned
           /\ resp.status = 500 <=> ret.failed
           /\ ret.failed => resp.body = ErrorBody(ErrorOf(ret))
           /\ ~ret.failed => resp.status = 200 /\ resp.body.kind # "error"

\* A request was answered with 500 and the failures of two connectors.
C16_Witness ==
    /\ req.seen
    /\ resp.status = 500
    /\ Len(resp.body.error.detail) = 2

\* C17: whenever the search returned no error the body of the 200 response
\* is a JSON array, never null.
C17_BodyIsArray ==
    resp.status = 200 => resp.body.kind = "array"

\* The connectors call c asks for, and what c returns when it runs alone
\* on connectors that answer as behaviour says.
AloneSelected(c) ==
    IF c.op = "Search" THEN AllConnectors(connectors) ELSE filterConnectors(connectors, c.sources)
Alone(c) ==
    LET sel == AloneSelected(c)
        good == FlatFrom([k \in 1..Len(sel) |->
                    IF behaviour[sel[k]].err = NoErr THEN behaviour[sel[k]].res ELSE <<>>], 1)
        bad == FlatFrom([k \in 1..Len(sel) |->
                    IF behaviour[sel[k]].err # NoErr
                    THEN <<WrapErr(connectors[sel[k]], behaviour[sel[k]].err)>> ELSE <<>>], 1)
    IN IF Len(sel) = 0
       THEN [results |-> <<>>, isNil |-> c.op = "Search", failed |-> FALSE, errs |-> <<>>]
       ELSE Aggregate(good, bad, Len(sel))
MatchesAlone(c, r) ==
    /\ r.failed = Alone(c).failed
    /\ r.isNil = Alone(c).isNil
    /\ SameBag(r.results, Alone(c).results)
    /\ SameBag(r.errs, Alone(c).errs)

\* C11: with two callers interleaved in any way on one engine, the
\* engine's connectors stay as constructed, no caller's send meets a closed
\* channel, and each caller that has returned holds what its call returns
\* when run alone.
C11_CallersIndependent ==
    /\ connectors = New(ConcEngine)
    /\ pc # "panic" /\ parked[1] # "panic"
    /\ pc = "returned" => MatchesAlone(call, ret)
    /\ parked[1] = "returned" => MatchesAlone(parked[2], parked[11])

\* The second caller's Search has returned a partial result while the
\* first caller's Search still waits, with an outcome queued in its channel.
C11_Witness ==
    /\ cur = 2
    /\ pc = "returned" /\ call.op = "Search"
    /\ Len(ret.results) = MaxResults /\ ~ret.failed
    /\ parked[1] = "wait" /\ parked[2].op = "Search"
    /\ Len(parked[7]) > 0

\* The orders in which the connectors of set S can be lined up.
Orders(S) == {o \in [1..Cardinality(S) -> S] : \A a, b \in DOMAIN o : o[a] = o[b] => a = b}
\* The hits of an outcome that count: none when it carries an error.
Block(r) == IF r.err = NoErr THEN r.results ELSE <<>>
\* The channel is a queue: an outcome is added at its end, taken at its head.
Fifo ==
    ch' # ch => IF Len(ch') < Len(ch)
                THEN ch' = Tail(ch)
                ELSE Len(ch') = Len(ch) + 1 /\ SubSeq(ch', 1, Len(ch)) = ch

\* C22: the merged results are the succeeding connectors' result lists, each
\* as one block in the order its connector returned it, the blocks never
\* interleaved; the blocks follow the order of the channel, which is the
\* order in which the outcomes were delivered.
C22_BlocksInDeliveryOrder ==
    /\ [](Returned /\ ~ret.failed =>
            \E o \in Orders({i \in SelectedSet : Succeeded(i)}) :
                ret.results = FlatFrom([k \in DOMAIN o |-> outcome[o[k]].res], 1))
    /\ [][/\ Fifo
          /\ (pc = "drain" /\ Len(ch) > 0) => all' = all \o Block(Head(ch))
          /\ (pc = "drain" /\ Len(ch) = 0) => ret'.results = all]_vars

\* Two connectors succeeded with two hits each; the second connector's
\* block comes first.
C22_Witness ==
    /\ Returned
    /\ Len(ret.results) = 4
    /\ ret.results[1].source = 2
    /\ ret.results[3].source = 1

\* C23: an outcome with an error is a failure as a whole. No hit of a
\* connector that returned an error is among the collected or returned
\* results, whatever it returned along with the error.
C23_FailureDiscardsResults ==
    /\ \A k \in DOMAIN all : Succeeded(all[k].source)
    /\ Returned => \A k \in DOMAIN ret.results : Succeeded(ret.results[k].source)

\* A connector returned a hit together with its error, another succeeded,
\* and the call has returned its results.
C23_Witness ==
    /\ Returned
    /\ \E i \in Conns : Failed(i) /\ Len(outcome[i].res) > 0
    /\ Len(ret.results) > 0

\* C21: on the production engine a search with sources = ["gdrive"] queries
\* the Drive connector.
C21_GdriveSelectsDrive ==
    (/\ Returned
     /\ behaviour.setup = "ok"
     /\ call.sources = [isNil |-> FALSE, list |-> <<"gdrive">>])
        => \E i \in Conns : connectors[i] = DriveName /\ Invoked(i)

\* C26: when only the Gmail client cannot be created, the search function
\* still searches, on an engine holding the Drive connector alone, with the
\* sources it was given; the Drive connector is queried if the sources
\* select it, and the only error the call can return is the Drive
\* connector's.
C26_GmailOptional ==
    behaviour.setup = "gmail"
        => /\ connectors = New(<<DriveName>>)
           /\ call = NoCall => pc = "idle" /\ ENABLED ProdEngineSearch
           /\ call # NoCall => call.op = "SearchWithSources" /\ call.sources = behaviour.sources
           /\ Returned => /\ IsSelected(1) => Invoked(1)
                          /\ ret.failed => ret.errs = <<WrapErr(DriveName, outcome[1].err)>>
                          /\ ~ret.failed => ret.results = GoodResults

\* The Gmail client failed and the search on the Drive connector alone
\* has returned hits.
C26_Witness ==
    /\ behaviour.setup = "gmail"
    /\ behaviour.sources.isNil
    /\ Returned
    /\ Len(ret.results) = MaxResults

\* The number of commas of a text.
Commas(text) == Cardinality({k \in DOMAIN text : text[k] = ","})

\* C24: the search function gets nil when the sources parameter is absent
\* or empty; otherwise it gets the comma-free runs of the parameter, in
\* order, one more than there are commas, names of no connector included.
C24_SourcesPassedThrough ==
    (req.seen /\ call # NoCall)
        => LET s == Get(req.sources, <<>>)
           IN IF s = <<>>
              THEN call.sources = NilSources
              ELSE /\ ~call.sources.isNil
                   /\ Len(call.sources.list) = Commas(s) + 1
                   /\ \A k \in DOMAIN call.sources.list : call.sources.list[k] # ","
                   /\ Join(call.sources.list) = s

\* sources=gmail, (a trailing comma) reached the search function as the
\* names "gmail" and "".
C24_Witness ==
    /\ req.sources = Present(<<"gmail", ",">>)
    /\ call.sources.list = <<"gmail", "">>
    /\ Returned

\* A sources list whose names are non-empty (no name of the model holds a comma).
WellFormed(sources) == \A k \in DOMAIN sources.list : sources.list[k] # ""

\* C25: a sources list of non-empty, comma-free names given to Client.Search
\* reaches the search function of the handler as the same list; a nil or
\* empty list travels as no sources parameter and arrives as nil.
C25_SourcesRoundTrip ==
    (Len(behaviour) = 1 /\ call # NoCall /\ WellFormed(behaviour[1]))
        => IF Len(behaviour[1].list) = 0
           THEN ~req.sources.present /\ call.sources = NilSources
           ELSE call.sources = [isNil |-> FALSE, list |-> behaviour[1].list]

\* Client.Search was given two names and the search function got them.
C25_Witness ==
    /\ Len(behaviour) = 1
    /\ behaviour[1].list = <<"gdrive", "nonexistent">>
    /\ call.sources.list = <<"gdrive", "nonexistent">>
    /\ resp.status = 200

NilError == [wraps |-> "", err |-> NoErr]

\* C27: when serveLoop returns because Serve returned, its result is nil
\* for ErrServerClosed and the error of Serve otherwise, and serveLoop has
\* not called Shutdown.
C27_ServeReturned ==
    loop.via = "serve"
        => /\ loop.pc = "returned"
           /\ loop.gpc = "exit"
           /\ loop.ret = IF loop.gerr = ErrServerClosed
                         THEN NilError
                         ELSE [wraps |-> "", err |-> loop.gerr]
           /\ loop.shutdowns = 0

\* Serve returned ErrServerClosed with no signal around and serveLoop
\* returned nil.
C27_Witness ==
    /\ loop.via = "serve"
    /\ loop.gerr = ErrServerClosed
    /\ loop.sigCh = <<>>
    /\ loop.ret = NilError

\* C28: a signal that arrives while the server is serving is the one thing
\* the select can take and it can take it at once; having taken it
\* serveLoop has announced the signal and called Shutdown exactly once; it
\* returns as soon as Shutdown does, whether Serve has returned or not, nil
\* if Shutdown succeeded and the wrapped shutdown error if not.
C28_GracefulShutdown ==
    /\ loop.shutdowns <= 1
    /\ (loop.pc = "select" /\ Len(loop.sigCh) > 0 /\ loop.gpc = "accepting")
          => /\ ENABLED (\E e \in ShutdownErrors : SelectSignal(e))
             /\ ~ENABLED SelectErr
    /\ loop.pc = "shutdown"
          => /\ loop.via = "signal"
             /\ ENABLED ShutdownReturns <=> server.conns = 0
    /\ loop.via = "signal"
          => /\ loop.pc \in {"shutdown", "returned"}
             /\ loop.shutdowns = 1
             /\ server.shut
             /\ Len(loop.out) = 1 /\ loop.out[1].received \in Signals
             /\ loop.pc = "returned" =>
                    loop.ret = IF server.shutErr = NoErr
                               THEN NilError
                               ELSE [wraps |-> "shutdown", err |-> server.shutErr]

\* SIGTERM was taken, Shutdown failed, and serveLoop has returned the
\* wrapped error while Serve has not returned yet.
C28_Witness ==
    /\ loop.via = "signal"
    /\ loop.pc = "returned"
    /\ loop.out = <<[received |-> "SIGTERM"]>>
    /\ loop.ret = [wraps |-> "shutdown", err |-> ErrShutdown]
    /\ loop.gpc = "accepting"

\* C29: the signal registration is released exactly once on every return
\* path and not before, and the goroutine that ran Serve never finds the
\* error channel full, before or after serveLoop's return.
C29_ReleasedAndNeverBlocked ==
    /\ loop.pc = "returned" => loop.stops = 1 /\ ~loop.registered
    /\ loop.pc # "returned" => loop.stops = 0
    /\ loop.pc \in {"select", "shutdown"} => loop.registered
    /\ loop.gpc = "send" => ENABLED ErrSend

\* serveLoop returned on a signal, and the goroutine delivered the result
\* of Serve afterwards.
C29_Witness ==
    /\ loop.via = "signal"
    /\ loop.stops = 1
    /\ loop.gpc = "exit"
    /\ loop.errCh = <<ErrServerClosed>>

\* C30: as long as no Listen has succeeded the server has no listener:
\* Serve returns "must call Listen before Serve" and accepts nothing, and
\* Addr returns the empty string, also after a failed Listen.
C30_NotListening ==
    server.bound = 0
        => /\ server.listener = "nil"
           /\ ~server.accepting
           /\ loop.gpc # "accepting"
           /\ loop.gpc \in {"send", "exit"} => loop.gerr = ErrMustListen
           /\ server.addrSeen \in {"unasked", ""}

\* After a failed Listen, Serve returned its error and Addr the empty string.
C30_Witness ==
    /\ server.bound = 0
    /\ server.listens > 0
    /\ loop.gerr = ErrMustListen
    /\ server.addrSeen = ""

\* The fields of tui.Model.
ModelOf(m) ==
    [state |-> m.state, value |-> m.value, focused |-> m.focused, results |-> m.results,
     cursor |-> m.cursor, err |-> m.err]
\* The step handles the key, and something changes.
KeyStep(key) == tui'.last.msg = key /\ tui' # tui
\* The step handles a search result message.
ResultStep == tui'.last.msg = "result" /\ tui' # tui

\* C31: Enter in the input state with a non-empty query moves the model to
\* loading and issues exactly one search command; any other Enter leaves the
\* model as it is and issues nothing, and no other message issues a search.
C31_EnterStartsSearch ==
    [][/\ KeyStep("enter") =>
            IF tui.state = "input" /\ tui.value # ""
            THEN /\ tui'.state = "loading"
                 /\ tui'.issued = tui.issued + 1
                 /\ Cardinality(tui'.pending) = Cardinality(tui.pending) + 1
            ELSE /\ ModelOf(tui') = ModelOf(tui)
                 /\ tui'.issued = tui.issued /\ tui'.pending = tui.pending
       /\ tui'.issued # tui.issued => tui'.last.msg = "enter"]_vars

\* Enter was pressed with a query: the model is loading, one search runs.
C31_Witness ==
    /\ tui.last.msg = "enter"
    /\ tui.state = "loading"
    /\ tui.issued = 1
    /\ tui.pending = {1}

\* C32: after a successful result message the model is in the results
\* state with cursor 0 and no error.
C32_SuccessClearsError ==
    (tui.last.msg = "result" /\ tui.last.err = NoErr)
        => /\ tui.state = "results"
           /\ tui.cursor = 0
           /\ tui.err = NoErr

\* C33: a result message with an error puts the model into the input
\* state, the input focused and the error recorded; the results shown
\* before and the cursor stay.
C33_ErrorKeepsResults ==
    [][(ResultStep /\ tui'.last.err # NoErr) =>
            /\ tui'.state = "input"
            /\ tui'.focused
            /\ tui'.err = tui'.last.err
            /\ tui'.results = tui.results
            /\ tui'.cursor = tui.cursor]_vars

\* A failed search came back while two results of an earlier search were
\* held with the cursor on the second.
C33_Witness ==
    /\ tui.last.msg = "result"
    /\ tui.last.err # NoErr
    /\ tui.err = tui.last.err
    /\ Len(tui.results) = 2
    /\ tui.cursor = 1

\* C34: Escape during loading leaves the model in the input state, and
\* the context of every search that was running then is cancelled.
C34_EscapeCancels ==
    /\ tui.escaped \subseteq tui.cancelled
    /\ (tui.last.msg = "esc" /\ ~tui.quit) => tui.state = "input"

\* C35: the cursor is never negative and never beyond the last result; the
\* keys move it only in the results state, Up by one from above the first
\* and Down by one from before the last result, and a result message
\* leaves it or resets it to 0.
C35_CursorInRange ==
    /\ [](/\ tui.cursor >= 0
          /\ Len(tui.results) > 0 => tui.cursor <= Len(tui.results) - 1)
    /\ [][tui'.cursor # tui.cursor =>
            \/ /\ tui'.last.msg = "down" /\ tui.state = "results"
               /\ tui.cursor < Len(tui.results) - 1 /\ tui'.cursor = tui.cursor + 1
            \/ /\ tui'.last.msg = "up" /\ tui.state = "results"
               /\ tui.cursor > 0 /\ tui'.cursor = tui.cursor - 1
            \/ tui'.last.msg = "result" /\ tui'.cursor = 0]_vars

\* Down has moved the cursor to the last of two results.
C35_Witness ==
    /\ tui.last.msg = "down"
    /\ tui.state = "results"
    /\ Len(tui.results) = 2
    /\ tui.cursor = 1

\* C36: Escape in the results or the loading state leads to the input
\* state with the input focused and does not quit; Escape in the input
\* state quits, Ctrl+C quits in every state, and nothing else quits.
C36_EscapeAndQuit ==
    [][/\ KeyStep("esc") =>
            IF tui.state \in {"results", "loading"}
            THEN tui'.state = "input" /\ tui'.focused /\ ~tui'.quit
            ELSE tui'.quit
       /\ KeyStep("ctrl+c") => tui'.quit
       /\ tui'.quit # tui.quit => tui'.last.msg \in {"esc", "ctrl+c"}]_vars

\* Escape was pressed while a search was loading: the input state, no quit.
C36_Witness ==
    /\ tui.last.msg = "esc"
    /\ tui.state = "input"
    /\ ~tui.quit
    /\ tui.escaped # {}

\* C37: the model enters the results state, or replaces the results it
\* holds, only when it is loading and the result handled is that of the
\* search it waits for.
C37_OnlyAwaitedResultShown ==
    [][((tui'.state = "results" /\ tui.state # "results") \/ tui'.results # tui.results)
            => /\ tui.state = "loading"
               /\ tui'.last.msg = "result"
               /\ tui'.last.id = tui.waiting]_vars

\* C38: once the browser was opened, Run is decided by whichever of three
\* events it can receive: a code from a callback takes it to the token
\* exchange, a callback without a code makes it return "no code in
\* callback", a cancelled context makes it return the context's error. A
\* token is returned only after a callback that carried a code, and every
\* return of Run that started the callback server has shut it down, once.
C38_FirstEventDecides ==
    /\ auth.pc = "select" =>
          /\ auth.opened
          /\ ENABLED AuthSelectCode <=> Len(auth.codeCh) > 0
          /\ ENABLED AuthSelectErr <=> Len(auth.errCh) > 0
          /\ ENABLED AuthSelectCtx <=> ctx.done
    /\ auth.pc = "exchange" => auth.via = "code" /\ auth.code # "" /\ auth.codes > 0
    /\ auth.ret.token # "" => auth.via = "code" /\ auth.code # "" /\ auth.codes > 0
    /\ auth.via = "nocode" =>
          /\ auth.ret = [token |-> "", wraps |-> "", err |-> ErrNoCode]
          /\ auth.nocodes > 0
    /\ auth.via = "ctx" =>
          /\ auth.ret = [token |-> "", wraps |-> "", err |-> ErrCanceled]
          /\ ctx.done
    /\ auth.via \in {"code", "nocode", "ctx"} => auth.opened
    /\ IF auth.pc \in {"exiting", "returned"} /\ auth.started
       THEN auth.shutdowns = 1 /\ ~auth.listening
       ELSE auth.shutdowns = 0

\* Run returned a token after a callback with a code, although a callback
\* without a code had come in as well, and the callback server is shut down.
C38_Witness ==
    /\ auth.pc = "returned"
    /\ auth.ret.token = "test-token"
    /\ auth.codes > 0
    /\ auth.nocodes > 0
    /\ auth.shutdowns = 1
    /\ ~auth.listening

====
